---- MODULE Spec2Model ----
(***************************************************************************)
(* Pool Authority Server (src/server.js): Stripe checkout sessions and     *)
(* templated e-mail through Resend (first server, lines 1-361) or Gmail    *)
(* SMTP (second server, lines 364-743).                                    *)
(*                                                                         *)
(* Strings are sequences of tokens.  A token is a record [t, v]: the       *)
(* character sequences the regular expressions of processTemplate look    *)
(* for are single tokens ({{key}}, {{#if key}}, {{/if}}, ** and the        *)
(* newline), every other run of characters is a text token.                *)
(***************************************************************************)
EXTENDS Integers, Sequences, FiniteSets, TLC

VARIABLES
    variant,          \* which server of src/server.js runs: "resend" or "gmail"
    stripeKeySet,     \* process.env.STRIPE_SECRET_KEY was provided
    emailConfigured,  \* emailConfigured (resend) / emailTransporter # null (gmail)
    reqs,             \* the requests being handled, by connection
    template,         \* processTemplate: its argument template
    tdata,            \* processTemplate: its argument data
    result,           \* processTemplate: its local variable result
    stage             \* processTemplate: how many of its four steps have run

serverVars == <<variant, stripeKeySet, emailConfigured, reqs>>
renderVars == <<template, tdata, result, stage>>
vars == <<variant, stripeKeySet, emailConfigured, reqs, template, tdata, result, stage>>

----------------------------------------------------------------------------
(* Bounds of the model *)

MaxTemplateLen == 4
MaxAmountMilli == 300

----------------------------------------------------------------------------
(* Tokens and JavaScript values *)

Tag(k) == [t |-> "tag", v |-> k]
Txt(s) == [t |-> "txt", v |-> s]
If(k) == [t |-> "if", v |-> k]
EndIf == [t |-> "endif", v |-> ""]
Stars == [t |-> "stars", v |-> ""]
NL == [t |-> "nl", v |-> ""]

Str(s) == [s |-> s, ty |-> "string", b |-> FALSE]
Bool(b) == [s |-> <<>>, ty |-> "boolean", b |-> b]
Undefined == [s |-> <<>>, ty |-> "undefined", b |-> FALSE]

\* JavaScript truthiness of a value: '' , false and undefined are falsy.
Truthy(v) == IF v.ty = "string" THEN v.s # <<>> ELSE v.b

\* String(v), as String.prototype.replace converts a replacement value.
StringOf(v) ==
    IF v.ty = "string" THEN v.s
    ELSE IF v.ty = "boolean" THEN <<Txt(IF v.b THEN "true" ELSE "false")>>
    ELSE <<Txt("undefined")>>

\* An object is the sequence of its own properties [k, v], in insertion order.
Keys(d) == {d[i].k : i \in 1..Len(d)}

Get(d, key) ==
    IF key \in Keys(d)
    THEN (d[CHOOSE i \in 1..Len(d) : d[i].k = key]).v
    ELSE Undefined

RECURSIVE Concat(_)
Concat(ss) == IF ss = <<>> THEN <<>> ELSE Head(ss) \o Concat(Tail(ss))

\* The least index of s holding token tok, 0 when there is none.
IndexOf(s, tok) ==
    IF \E i \in 1..Len(s) : s[i] = tok
    THEN CHOOSE i \in 1..Len(s) : s[i] = tok /\ \A j \in 1..(i - 1) : s[j] # tok
    ELSE 0

----------------------------------------------------------------------------
(* processTemplate *)

\* The replacement string data[key] || '' .
Replacement(v) == IF Truthy(v) THEN StringOf(v) ELSE <<>>

\* A replacement string inserted for the match {{key}}: $& stands for the match.
Expand(repl, key) ==
    [i \in 1..Len(repl) |-> IF repl[i] = Txt("$&") THEN Tag(key) ELSE repl[i]]

\* result.replace(new RegExp(`\\{\\{${key}\\}\\}`, 'g'), repl)
ReplaceTag(s, key, repl) ==
    Concat([i \in 1..Len(s) |->
              IF s[i] = Tag(key) THEN Expand(repl, key) ELSE <<s[i]>>])

\* Object.keys(data).forEach(...), from the i-th key on.
RECURSIVE MergeFrom(_, _, _)
MergeFrom(s, d, i) ==
    IF i > Len(d) THEN s
    ELSE MergeFrom(ReplaceTag(s, d[i].k, Replacement(d[i].v)), d, i + 1)

MergeTags(s, d) == MergeFrom(s, d, 1)

\* Conditionals with the test (condition in data) in place of data[condition].
RECURSIVE ConditionalsKeyPresent(_, _)
ConditionalsKeyPresent(s, d) ==
    IF s = <<>> THEN <<>>
    ELSE IF Head(s).t = "if" /\ IndexOf(Tail(s), EndIf) > 0
    THEN LET j == IndexOf(Tail(s), EndIf)
             content == SubSeq(Tail(s), 1, j - 1)
             rest == SubSeq(Tail(s), j + 1, Len(s) - 1)
         IN  (IF Head(s).v \in Keys(d) THEN content ELSE <<>>)
                 \o ConditionalsKeyPresent(rest, d)
    ELSE <<Head(s)>> \o ConditionalsKeyPresent(Tail(s), d)

\* result.replace(/\{\{#if (\w+)\}\}([\s\S]*?)\{\{\/if\}\}/g, ...)
RECURSIVE Conditionals(_, _)
Conditionals(s, d) ==
    IF s = <<>> THEN <<>>
    ELSE IF Head(s).t = "if" /\ IndexOf(Tail(s), EndIf) > 0
    THEN LET j == IndexOf(Tail(s), EndIf)
             content == SubSeq(Tail(s), 1, j - 1)
             rest == SubSeq(Tail(s), j + 1, Len(s) - 1)
         IN  (IF Truthy(Get(d, Head(s).v)) THEN content ELSE <<>>)
                 \o Conditionals(rest, d)
    ELSE <<Head(s)>> \o Conditionals(Tail(s), d)

\* Bold with [\s\S]*? in place of .*? : a pair may span a newline.
RECURSIVE BoldAcrossLines(_)
BoldAcrossLines(s) ==
    IF s = <<>> THEN <<>>
    ELSE IF Head(s) = Stars /\ IndexOf(Tail(s), Stars) > 0
    THEN LET j == IndexOf(Tail(s), Stars)
             content == SubSeq(Tail(s), 1, j - 1)
             rest == SubSeq(Tail(s), j + 1, Len(s) - 1)
         IN  <<Txt("<strong>")>> \o content \o <<Txt("</strong>")>>
                 \o BoldAcrossLines(rest)
    ELSE <<Head(s)>> \o BoldAcrossLines(Tail(s))

\* result.replace(/\*\*(.*?)\*\*/g, '<strong>$1</strong>'): . matches no newline.
RECURSIVE Bold(_)
Bold(s) ==
    IF s = <<>> THEN <<>>
    ELSE IF /\ Head(s) = Stars
            /\ IndexOf(Tail(s), Stars) > 0
            /\ \A i \in 1..(IndexOf(Tail(s), Stars) - 1) : Tail(s)[i] # NL
    THEN LET j == IndexOf(Tail(s), Stars)
             content == SubSeq(Tail(s), 1, j - 1)
             rest == SubSeq(Tail(s), j + 1, Len(s) - 1)
         IN  <<Txt("<strong>")>> \o content \o <<Txt("</strong>")>> \o Bold(rest)
    ELSE <<Head(s)>> \o Bold(Tail(s))

\* result.replace(/\n/g, '<br>')
Newlines(s) == [i \in 1..Len(s) |-> IF s[i] = NL THEN Txt("<br>") ELSE s[i]]

\* processTemplate with the conditionals resolved before the merge tags.
processTemplateConditionalsFirst(tmpl, d) ==
    Newlines(Bold(MergeTags(Conditionals(tmpl, d), d)))

processTemplate(tmpl, d) == Newlines(Bold(Conditionals(MergeTags(tmpl, d), d)))

----------------------------------------------------------------------------
(* Requests, provider calls and responses *)

\* a || b on strings: '' is falsy.
Or(a, b) == IF a # "" THEN a ELSE b

\* The string x as a JavaScript value of the merge data.
StrOf(x) == IF x = "" THEN Str(<<>>) ELSE Str(<<Txt(x)>>)

\* req.body.amount: a number of thousandths, a string or a boolean.
NoAmount == [ty |-> "undefined", milli |-> 0, text |-> ""]
Num(n) == [ty |-> "number", milli |-> n, text |-> ""]
NumericString(n) == [ty |-> "string", milli |-> n, text |-> "numeric"]
OtherString == [ty |-> "string", milli |-> 0, text |-> "abc"]
BoolAmount(b) == [ty |-> "boolean", milli |-> IF b THEN 1000 ELSE 0, text |-> ""]

\* Number(amount) is NaN.
IsNaN(a) == a.ty = "undefined" \/ (a.ty = "string" /\ a.text # "numeric")

\* !amount
Not(a) ==
    \/ a.ty = "undefined"
    \/ a.ty = "number" /\ a.milli = 0
    \/ a.ty = "boolean" /\ a.milli = 0

\* The amounts below 0.6 whose half cent the double amount * 100 falls short
\* of: 0.145 * 100 is 14.499999999999998.
HalfCentBelow == {145, 285, 565, 575}

\* Math.round(amount * 100) of the amount n / 1000, in IEEE 754 doubles.
MathRound100(n) == IF n \in HalfCentBelow THEN n \div 10 ELSE (n + 5) \div 10

\* if (!amount || amount <= 0)
InvalidAmount(a) == Not(a) \/ (~IsNaN(a) /\ a.milli <= 0)

\* sessionConfig.line_items[0].price_data.unit_amount
UnitAmount(a) ==
    IF IsNaN(a) THEN [nan |-> TRUE, cents |-> 0]
    ELSE [nan |-> FALSE, cents |-> MathRound100(a.milli)]

NoUnit == [nan |-> FALSE, cents |-> 0]

NoSettings ==
    [companyName |-> "", ownerName |-> "", phone |-> "", email |-> "",
     address |-> "", logoUrl |-> "", primaryColor |-> "", accentColor |-> ""]

NoTemplate == [present |-> FALSE, subject |-> Undefined, body |-> Undefined]

NoBody ==
    [template |-> NoTemplate, subject |-> "", body |-> <<>>, to |-> "", data |-> <<>>,
     companySettings |-> NoSettings, paymentLink |-> "", amount |-> NoAmount,
     sessionId |-> ""]

NoHtml ==
    [content |-> <<>>, phone |-> "", email |-> "", address |-> "", logoUrl |-> "",
     primaryColor |-> "", accentColor |-> "", title |-> "", footerName |-> ""]

NoCall ==
    [subject |-> <<>>, to |-> "", provider |-> "", op |-> "", unit |-> NoUnit,
     fromName |-> "", html |-> NoHtml]

NoReply == [kind |-> "", msg |-> ""]

NoResponse == [status |-> 0, error |-> "", message |-> ""]

\* A connection: where its handler stands (pc), the request (ep, body), the
\* handler's local mergeData, the provider call it awaits (call), how many
\* provider calls it made (calls), what the provider settled with (reply) and
\* the response sent.
NoRequest ==
    [body |-> NoBody, pc |-> "idle", ep |-> "", mergeData |-> <<>>, call |-> NoCall,
     calls |-> 0, reply |-> NoReply, response |-> NoResponse]

\* res.status(code).json({ error })
Fail(code, error) == [status |-> code, error |-> error, message |-> ""]

\* res.json({ ... }) of a success
Success(message) == [status |-> 200, error |-> "", message |-> message]

\* The request ep, body answered without a provider call.
Answered(ep, body, response) ==
    [body |-> body, pc |-> "responded", ep |-> ep, mergeData |-> <<>>, call |-> NoCall,
     calls |-> 0, reply |-> NoReply, response |-> response]

\* The request ep, body suspended at its await of the provider call.
Awaiting(ep, body, md, call) ==
    [body |-> body, pc |-> "awaiting", ep |-> ep, mergeData |-> md, call |-> call,
     calls |-> 1, reply |-> NoReply, response |-> NoResponse]

DefaultCompanyName == IF variant = "resend" THEN "Pool Authority" ELSE "Pool Service"

EmailProvider == IF variant = "resend" THEN "resend" ELSE "gmail"

NotConfigured ==
    IF variant = "resend"
    THEN "Email not configured. Set RESEND_API_KEY."
    ELSE "Email not configured. Set GMAIL_USER and GMAIL_APP_PASSWORD."

\* REPLY_TO_EMAIL (first server), GMAIL_USER (second server)
DefaultRecipient == IF variant = "resend" THEN "jack@poolauthoritycny.com" ELSE "GMAIL_USER"

----------------------------------------------------------------------------
(* wrapInHtmlEmail and the merge data *)

wrapInHtmlEmail(content, companySettings) ==
    [content |-> content,
     phone |-> companySettings.phone,
     email |-> companySettings.email,
     address |-> companySettings.address,
     logoUrl |-> companySettings.logoUrl,
     primaryColor |-> Or(companySettings.primaryColor, "#1e3a5f"),
     accentColor |-> Or(companySettings.accentColor, "#5bb4d8"),
     title |-> Or(companySettings.companyName, DefaultCompanyName),
     footerName |-> companySettings.companyName]

\* { ...base, [pair.k]: pair.v }: an own key keeps its place, a new one is appended.
SetKey(base, pair) ==
    IF pair.k \in Keys(base)
    THEN [i \in 1..Len(base) |-> IF base[i].k = pair.k THEN pair ELSE base[i]]
    ELSE Append(base, pair)

\* { ...data, ...base }: the derived keys win over the caller's.
RECURSIVE SpreadUnder(_, _)
SpreadUnder(base, d) ==
    IF d = <<>> THEN base
    ELSE SpreadUnder(IF Head(d).k \in Keys(base) THEN base ELSE Append(base, Head(d)),
                     Tail(d))

\* { ...base, ...data }
RECURSIVE Spread(_, _)
Spread(base, d) ==
    IF d = <<>> THEN base ELSE Spread(SetKey(base, Head(d)), Tail(d))

DerivedKeys(ep) ==
    <<"company_name", "owner_name", "company_phone", "company_email">>
        \o (IF ep = "/send-invoice" THEN <<"payment_link">> ELSE <<>>)

\* The derived keys of mergeData, before ...data.
Derived(ep, body) ==
    <<[k |-> "company_name",
       v |-> StrOf(Or(body.companySettings.companyName, DefaultCompanyName))],
      [k |-> "owner_name", v |-> StrOf(body.companySettings.ownerName)],
      [k |-> "company_phone", v |-> StrOf(body.companySettings.phone)],
      [k |-> "company_email", v |-> StrOf(body.companySettings.email)]>>
        \o (IF ep = "/send-invoice"
            THEN <<[k |-> "payment_link", v |-> StrOf(body.paymentLink)]>>
            ELSE <<>>)

mergeData(ep, body) == Spread(Derived(ep, body), body.data)

\* `<br><br><a href="${paymentLink}" class="btn">Pay Now</a>`
PayNow(paymentLink) ==
    <<Txt("<br><br><a href=\""), Txt(paymentLink), Txt("\" class=\"btn\">Pay Now</a>")>>

SentMessage(ep) ==
    CASE ep = "/send-weekly-update" -> "Weekly update sent successfully"
      [] ep = "/send-invoice" -> "Invoice sent successfully"
      [] ep = "/send-quote" -> "Quote sent successfully"
      [] ep = "/send-email" -> "Email sent successfully"
      [] ep = "/test-email" -> "Test email sent!"
      [] OTHER -> "session"

EmailCall(to, subject, html, fromName) ==
    [subject |-> subject, to |-> to, provider |-> EmailProvider, op |-> "send",
     unit |-> NoUnit, fromName |-> fromName, html |-> html]

----------------------------------------------------------------------------
(* The handlers, up to their await *)

\* GET /
health(body) ==
    Answered("/", body, Success("Pool Authority Server Running"))

\* POST /create-checkout-session
createCheckoutSession(body) ==
    IF InvalidAmount(body.amount)
    THEN Answered("/create-checkout-session", body, Fail(400, "Invalid amount"))
    ELSE Awaiting("/create-checkout-session", body, <<>>,
                  [NoCall EXCEPT !.provider = "stripe", !.op = "create",
                                 !.unit = UnitAmount(body.amount)])

\* GET /payment-status/:sessionId
paymentStatus(body) ==
    Awaiting("/payment-status", body, <<>>,
             [NoCall EXCEPT !.provider = "stripe", !.op = "retrieve"])

\* if (paymentLink), pasted into every templated handler
AppendsPayNowAnyEndpoint(ep, body) == body.paymentLink # ""

\* if (paymentLink), which only /send-invoice holds
AppendsPayNow(ep, body) == ep = "/send-invoice" /\ body.paymentLink # ""

\* if (!to) with the test left out
RecipientNeverMissing(body) == FALSE

\* if (!to)
MissingRecipient(body) == body.to = ""

\* POST /send-weekly-update, /send-invoice, /send-quote
sendTemplated(ep, body) ==
    IF ~emailConfigured THEN Answered(ep, body, Fail(400, NotConfigured))
    ELSE IF MissingRecipient(body)
    THEN Answered(ep, body, Fail(400, "Recipient email required"))
    ELSE IF ~body.template.present
    THEN Answered(ep, body,
                  Fail(500, "Cannot read properties of undefined (reading 'subject')"))
    ELSE IF body.template.subject = Undefined \/ body.template.body = Undefined
    THEN Answered(ep, body,
                  Fail(500, "Cannot read properties of undefined (reading 'replace')"))
    ELSE LET md == mergeData(ep, body)
             subject == processTemplate(body.template.subject.s, md)
             rendered == processTemplate(body.template.body.s, md)
             bodyContent ==
                 IF AppendsPayNow(ep, body)
                 THEN rendered \o PayNow(body.paymentLink)
                 ELSE rendered
         IN  Awaiting(ep, body, md,
                      EmailCall(body.to, subject,
                                wrapInHtmlEmail(bodyContent, body.companySettings),
                                Or(body.companySettings.companyName, DefaultCompanyName)))

\* POST /send-email
sendEmail(body) ==
    IF ~emailConfigured THEN Answered("/send-email", body, Fail(400, NotConfigured))
    ELSE IF MissingRecipient(body) \/ body.subject = "" \/ body.body = <<>>
    THEN Answered("/send-email", body, Fail(400, "to, subject, and body are required"))
    ELSE Awaiting("/send-email", body, <<>>,
                  EmailCall(body.to, <<Txt(body.subject)>>,
                            wrapInHtmlEmail(Newlines(body.body), body.companySettings),
                            Or(body.companySettings.companyName, DefaultCompanyName)))

\* POST /test-email
testEmail(body) ==
    IF ~emailConfigured THEN Answered("/test-email", body, Fail(400, NotConfigured))
    ELSE Awaiting("/test-email", body, <<>>,
                  EmailCall(Or(body.to, DefaultRecipient),
                            <<Txt("Pool Authority - Email Test")>>,
                            [NoHtml EXCEPT !.content = <<Txt("<h1>Email is working!</h1>")>>],
                            IF variant = "resend" THEN "Pool Authority" ELSE "GMAIL_USER"))

----------------------------------------------------------------------------
(* The providers *)

\* What stripe.checkout.sessions.create / retrieve may settle with.
StripeReplies(call) ==
    IF ~stripeKeySet THEN {[kind |-> "reject", msg |-> "Invalid API Key provided"]}
    ELSE IF call.unit.nan THEN {[kind |-> "reject", msg |-> "Invalid integer: NaN"]}
    ELSE {[kind |-> "ok", msg |-> ""],
          [kind |-> "reject", msg |-> "No such checkout.session"]}

\* What fetch('https://api.resend.com/emails') and response.json() may settle
\* with: an OK response, a non-OK response with or without a message, a
\* non-OK response whose body is no JSON, a rejected fetch; msg is the
\* provider's message.
ResendReplies ==
    {[kind |-> "ok", msg |-> ""],
     [kind |-> "not-ok", msg |-> "The to field is invalid"],
     [kind |-> "not-ok", msg |-> ""],
     [kind |-> "no-json", msg |-> "<html>502 Bad Gateway</html>"],
     [kind |-> "reject", msg |-> "fetch failed"]}

\* What emailTransporter.sendMail may settle with.
GmailReplies ==
    {[kind |-> "ok", msg |-> ""], [kind |-> "reject", msg |-> "Invalid login"]}

\* catch (error) { res.status(500).json({ error: error.message }) }
Caught(error) == Fail(500, error)

\* What response.json() rejects with on a body that is no JSON.
JsonSyntaxError == "Unexpected token < in JSON at position 0"

\* throw new Error(data.message), without || 'Failed to send email'
ResendFailureBare(reply) ==
    IF reply.kind = "no-json" THEN JsonSyntaxError ELSE reply.msg

\* The message of the error sendEmailWithResend throws on the failure reply.
ResendFailure(reply) ==
    IF reply.kind = "not-ok" THEN Or(reply.msg, "Failed to send email")
    ELSE IF reply.kind = "no-json" THEN JsonSyntaxError
    ELSE reply.msg

----------------------------------------------------------------------------
(* The server *)

Recipients == {"", "sam@example.com"}

Settings ==
    {NoSettings,
     [NoSettings EXCEPT !.companyName = "Blue Pools", !.ownerName = "Jack",
                        !.phone = "555-0100", !.email = "office@bluepools.example"]}

RequestTemplates ==
    {NoTemplate,
     [present |-> TRUE, subject |-> Undefined, body |-> Str(<<Txt("Hi")>>)],
     [present |-> TRUE, subject |-> Str(<<Txt("Update")>>), body |-> Undefined],
     [present |-> TRUE, subject |-> Str(<<Tag("company_name"), Txt(": "), Tag("name")>>),
      body |-> Str(<<Tag("owner_name"), NL, Tag("payment_link")>>)]}

RequestData ==
    {<<>>,
     <<[k |-> "name", v |-> Str(<<Txt("Sam")>>)]>>,
     <<[k |-> "name", v |-> Str(<<Txt("Sam")>>)],
       [k |-> "company_name", v |-> Str(<<Txt("Caller Co")>>)],
       [k |-> "payment_link", v |-> Str(<<Txt("https://pay.example/caller")>>)]>>}

PaymentLinks == {"", "https://pay.example/1"}

Amounts ==
    {NoAmount, OtherString, NumericString(12500), BoolAmount(TRUE), BoolAmount(FALSE),
     Num(49990)} \cup {Num(n) : n \in (0 - 2)..MaxAmountMilli}

CheckoutBodies == {[NoBody EXCEPT !.amount = a] : a \in Amounts}

StatusBodies == {[NoBody EXCEPT !.sessionId = "cs_test_1"]}

TemplatedBodies ==
    {[NoBody EXCEPT !.to = to, !.template = t, !.data = d, !.companySettings = cs] :
        to \in Recipients, t \in RequestTemplates, d \in RequestData, cs \in Settings}

\* A body with or without paymentLink, which only /send-invoice reads.
InvoiceBodies == {[b EXCEPT !.paymentLink = l] : b \in TemplatedBodies, l \in PaymentLinks}

EmailBodies ==
    {[NoBody EXCEPT !.to = to, !.subject = su, !.body = bo, !.companySettings = cs] :
        to \in Recipients, su \in {"", "News"}, bo \in {<<>>, <<Txt("Hi"), NL, Txt("Bye")>>},
        cs \in Settings}

TestBodies == {[NoBody EXCEPT !.to = to] : to \in Recipients}

Init ==
    /\ variant \in {"resend", "gmail"}
    /\ stripeKeySet \in BOOLEAN
    /\ emailConfigured \in BOOLEAN
    /\ reqs = <<NoRequest>>
    /\ template = <<>>
    /\ tdata = <<>>
    /\ result = <<>>
    /\ stage = 4

Idle(i) == reqs[i].pc = "idle"

Handle(i, request) ==
    /\ Idle(i)
    /\ reqs' = [reqs EXCEPT ![i] = request]
    /\ UNCHANGED <<variant, stripeKeySet, emailConfigured, renderVars>>

Health(i) == Handle(i, health(NoBody))

CreateCheckoutSession(i) == \E body \in CheckoutBodies : Handle(i, createCheckoutSession(body))

PaymentStatus(i) == \E body \in StatusBodies : Handle(i, paymentStatus(body))

SendWeeklyUpdate(i) ==
    \E body \in InvoiceBodies : Handle(i, sendTemplated("/send-weekly-update", body))

SendInvoice(i) == \E body \in InvoiceBodies : Handle(i, sendTemplated("/send-invoice", body))

SendQuote(i) == \E body \in InvoiceBodies : Handle(i, sendTemplated("/send-quote", body))

SendEmail(i) == \E body \in EmailBodies : Handle(i, sendEmail(body))

TestEmail(i) == \E body \in TestBodies : Handle(i, testEmail(body))

\* The continuation with one retry: a failed call is issued once more.
ResumeRetryOnce(i, reply, response) ==
    /\ reqs' = IF reply.kind # "ok" /\ reqs[i].calls < 2
               THEN [reqs EXCEPT ![i].calls = @ + 1]
               ELSE [reqs EXCEPT ![i].pc = "responded", ![i].reply = reply,
                                 ![i].response = response]
    /\ UNCHANGED <<variant, stripeKeySet, emailConfigured, renderVars>>

\* The continuation with res held in a module-level variable: it answers
\* every request that is awaiting.
ResumeSharedRes(i, reply, response) ==
    /\ reqs' = [j \in DOMAIN reqs |->
                  IF reqs[j].pc = "awaiting"
                  THEN [reqs[j] EXCEPT !.pc = "responded", !.reply = reply,
                                       !.response = response]
                  ELSE reqs[j]]
    /\ UNCHANGED <<variant, stripeKeySet, emailConfigured, renderVars>>

\* The request i resumes after its await with the provider's reply.
Resume(i, reply, response) ==
    /\ reqs' = [reqs EXCEPT ![i].pc = "responded", ![i].reply = reply,
                            ![i].response = response]
    /\ UNCHANGED <<variant, stripeKeySet, emailConfigured, renderVars>>

\* await stripe.checkout.sessions.create(...) / retrieve(...) settles.
StripeSettles(i) ==
    /\ reqs[i].pc = "awaiting"
    /\ reqs[i].call.provider = "stripe"
    /\ \E reply \in StripeReplies(reqs[i].call) :
          Resume(i, reply,
                 IF reply.kind = "ok" THEN Success(SentMessage(reqs[i].ep))
                 ELSE Caught(reply.msg))

\* await sendEmailWithResend(...) settles.
ResendSettles(i) ==
    /\ reqs[i].pc = "awaiting"
    /\ reqs[i].call.provider = "resend"
    /\ \E reply \in ResendReplies :
          Resume(i, reply,
                 IF reply.kind = "ok" THEN Success(SentMessage(reqs[i].ep))
                 ELSE Caught(ResendFailure(reply)))

\* await emailTransporter.sendMail(...) settles.
GmailSettles(i) ==
    /\ reqs[i].pc = "awaiting"
    /\ reqs[i].call.provider = "gmail"
    /\ \E reply \in GmailReplies :
          Resume(i, reply,
                 IF reply.kind = "ok" THEN Success(SentMessage(reqs[i].ep))
                 ELSE Caught(reply.msg))

\* The response is on the wire: the connection takes its next request.
Done(i) ==
    /\ reqs[i].pc = "responded"
    /\ reqs' = [reqs EXCEPT ![i] = NoRequest]
    /\ UNCHANGED <<variant, stripeKeySet, emailConfigured, renderVars>>

Next ==
    \/ \E i \in DOMAIN reqs : Health(i)
    \/ \E i \in DOMAIN reqs : CreateCheckoutSession(i)
    \/ \E i \in DOMAIN reqs : PaymentStatus(i)
    \/ \E i \in DOMAIN reqs : SendWeeklyUpdate(i)
    \/ \E i \in DOMAIN reqs : SendInvoice(i)
    \/ \E i \in DOMAIN reqs : SendQuote(i)
    \/ \E i \in DOMAIN reqs : SendEmail(i)
    \/ \E i \in DOMAIN reqs : TestEmail(i)
    \/ \E i \in DOMAIN reqs : StripeSettles(i)
    \/ \E i \in DOMAIN reqs : ResendSettles(i)
    \/ \E i \in DOMAIN reqs : GmailSettles(i)
    \/ \E i \in DOMAIN reqs : Done(i)

Spec == Init /\ [][Next]_vars

----------------------------------------------------------------------------
(* The server with two requests in flight *)

\* Two connections whose handlers interleave at their awaits.
Connections == {1, 2}

ConcurrentCheckoutBodies ==
    {b \in CheckoutBodies : b.amount \in {NoAmount, OtherString, Num(49990)}}

ConcurrentTemplatedBodies ==
    {b \in InvoiceBodies :
        /\ b.data = <<>>
        /\ b.companySettings = NoSettings
        /\ b.paymentLink = ""
        /\ b.template.present => b.template.subject # Undefined /\ b.template.body # Undefined}

ConcurrentEmailBodies ==
    {b \in EmailBodies : b.companySettings = NoSettings /\ b.body # <<>>}

ConcurrentInit ==
    /\ variant \in {"resend", "gmail"}
    /\ stripeKeySet \in BOOLEAN
    /\ emailConfigured \in BOOLEAN
    /\ reqs = [i \in Connections |-> NoRequest]
    /\ template = <<>>
    /\ tdata = <<>>
    /\ result = <<>>
    /\ stage = 4

CheckoutArrives(i) ==
    \E body \in ConcurrentCheckoutBodies : Handle(i, createCheckoutSession(body))

WeeklyUpdateArrives(i) ==
    \E body \in ConcurrentTemplatedBodies :
        Handle(i, sendTemplated("/send-weekly-update", body))

InvoiceArrives(i) ==
    \E body \in ConcurrentTemplatedBodies : Handle(i, sendTemplated("/send-invoice", body))

QuoteArrives(i) ==
    \E body \in ConcurrentTemplatedBodies : Handle(i, sendTemplated("/send-quote", body))

EmailArrives(i) == \E body \in ConcurrentEmailBodies : Handle(i, sendEmail(body))

\* The awaited provider call of request i settles.
Settles(i) == StripeSettles(i) \/ ResendSettles(i) \/ GmailSettles(i)

ConcurrentNext ==
    \/ \E i \in Connections : Health(i)
    \/ \E i \in Connections : CheckoutArrives(i)
    \/ \E i \in Connections : PaymentStatus(i)
    \/ \E i \in Connections : WeeklyUpdateArrives(i)
    \/ \E i \in Connections : InvoiceArrives(i)
    \/ \E i \in Connections : QuoteArrives(i)
    \/ \E i \in Connections : EmailArrives(i)
    \/ \E i \in Connections : TestEmail(i)
    \/ \E i \in Connections : StripeSettles(i)
    \/ \E i \in Connections : ResendSettles(i)
    \/ \E i \in Connections : GmailSettles(i)
    \/ \E i \in Connections : Done(i)

\* Every awaited promise settles (the provider answers, or the client's own
\* time-out rejects it) and the event loop then runs the continuation.
SpecConcurrent ==
    /\ ConcurrentInit
    /\ [][ConcurrentNext]_vars
    /\ \A i \in Connections : WF_vars(Settles(i))

----------------------------------------------------------------------------
(* Properties of the server *)

SendEndpoints == {"/send-weekly-update", "/send-invoice", "/send-quote", "/send-email"}
TemplatedEndpoints == {"/send-weekly-update", "/send-invoice", "/send-quote"}
EmailEndpoints == SendEndpoints \cup {"/test-email"}
PaymentEndpoints == {"/create-checkout-session", "/payment-status"}

ClientError(r) == r.response.status \in 400..499
ServerError(r) == r.response.status \in 500..599

\* C1: on every send endpoint a request whose body has no recipient `to` is
\* answered with a 400-class error and the e-mail provider is never invoked
\* for it.
C1_MissingRecipient ==
    \A i \in DOMAIN reqs :
        (reqs[i].pc # "idle" /\ reqs[i].ep \in SendEndpoints /\ reqs[i].body.to = "")
            => /\ reqs[i].pc = "responded"
               /\ ClientError(reqs[i])
               /\ reqs[i].response.error # ""
               /\ reqs[i].calls = 0
               /\ reqs[i].call = NoCall

C1_Witness ==
    \E i \in DOMAIN reqs :
        /\ emailConfigured
        /\ reqs[i].pc = "responded"
        /\ reqs[i].ep = "/send-invoice"
        /\ reqs[i].body.to = ""
        /\ reqs[i].body.template.present
        /\ reqs[i].response = Fail(400, "Recipient email required")
        /\ reqs[i].calls = 0

\* C2 (as claimed): with the payment or the e-mail credentials absent, every
\* request to the corresponding endpoints is answered with a fixed "not
\* configured" error and the provider is not invoked.
C2_NotConfigured ==
    \A i \in DOMAIN reqs :
        (/\ reqs[i].pc # "idle"
         /\ \/ reqs[i].ep \in PaymentEndpoints /\ ~stripeKeySet
            \/ reqs[i].ep \in EmailEndpoints /\ ~emailConfigured)
            => /\ reqs[i].pc = "responded"
               /\ reqs[i].calls = 0
               /\ ClientError(reqs[i])
               /\ reqs[i].ep \in EmailEndpoints => reqs[i].response.error = NotConfigured

Failed(r) == r.pc = "responded" /\ r.reply.kind \notin {"", "ok"}

\* C3 (as claimed): whenever a provider call fails, the request is answered
\* with a 500-class status whose error is the provider's message, and the
\* call is not retried.
C3_ProviderMessage ==
    \A i \in DOMAIN reqs :
        Failed(reqs[i])
            => /\ ServerError(reqs[i])
               /\ reqs[i].response.error = reqs[i].reply.msg
               /\ reqs[i].calls = 1

\* C3 (amended): whenever a provider call fails, the request is answered with
\* a 500-class status and the call is not retried; the error is the
\* provider's message, except that a non-OK Resend response without a message
\* gives 'Failed to send email' and one whose body is no JSON gives the JSON
\* parser's message.
C3_ProviderError ==
    \A i \in DOMAIN reqs :
        Failed(reqs[i])
            => /\ ServerError(reqs[i])
               /\ reqs[i].calls = 1
               /\ reqs[i].response.error =
                     CASE reqs[i].reply.kind = "no-json" -> JsonSyntaxError
                       [] reqs[i].reply.kind = "not-ok" /\ reqs[i].reply.msg = ""
                            -> "Failed to send email"
                       [] OTHER -> reqs[i].reply.msg

C3_Witness ==
    \E i \in DOMAIN reqs :
        /\ Failed(reqs[i])
        /\ reqs[i].ep = "/send-quote"
        /\ reqs[i].reply = [kind |-> "not-ok", msg |-> ""]
        /\ reqs[i].response = Fail(500, "Failed to send email")

PositiveNumber(a) == a.ty = "number" /\ a.milli > 0

\* round(n / 10), halves rounded up as Math.round rounds them.
RoundHalfUp(n) == (n + 5) \div 10

\* C4 (as claimed): for every positive decimal amount /create-checkout-session
\* accepts, the unit_amount sent to the payment provider is round(amount * 100);
\* 49.99 gives 4999.
C4_UnitAmount ==
    \A i \in DOMAIN reqs :
        (/\ reqs[i].pc = "awaiting"
         /\ reqs[i].ep = "/create-checkout-session"
         /\ PositiveNumber(reqs[i].body.amount))
            => /\ ~reqs[i].call.unit.nan
               /\ reqs[i].call.unit.cents = RoundHalfUp(reqs[i].body.amount.milli)

\* C5 (as claimed): /create-checkout-session invokes the payment provider only
\* when the amount is a positive number; any other amount is answered with
\* the 400-class error 'Invalid amount' and no session is created.
C5_PositiveAmountOnly ==
    \A i \in DOMAIN reqs :
        (/\ reqs[i].pc # "idle"
         /\ reqs[i].ep = "/create-checkout-session"
         /\ ~PositiveNumber(reqs[i].body.amount))
            => /\ reqs[i].pc = "responded"
               /\ reqs[i].response = Fail(400, "Invalid amount")
               /\ reqs[i].calls = 0

\* The value the claim C9 expects under key k of the merge data.
ExpectedMergeValue(r, k) ==
    IF k \in Keys(r.body.data) THEN Get(r.body.data, k)
    ELSE CASE k = "company_name"
                -> StrOf(Or(r.body.companySettings.companyName, DefaultCompanyName))
           [] k = "owner_name" -> StrOf(r.body.companySettings.ownerName)
           [] k = "company_phone" -> StrOf(r.body.companySettings.phone)
           [] k = "company_email" -> StrOf(r.body.companySettings.email)
           [] k = "payment_link" /\ r.ep = "/send-invoice" -> StrOf(r.body.paymentLink)
           [] OTHER -> Undefined

Range(s) == {s[i] : i \in 1..Len(s)}

\* C9: in /send-weekly-update, /send-invoice and /send-quote the merge data
\* holds the derived keys (company_name, owner_name, company_phone,
\* company_email, and payment_link for the invoice) with their defaults, and
\* for every key the caller's data also supplies, the caller's value is the
\* one used in rendering.
C9_CallerDataWins ==
    \A i \in DOMAIN reqs :
        (reqs[i].pc = "awaiting" /\ reqs[i].ep \in TemplatedEndpoints)
            => LET r == reqs[i]
               IN  /\ Keys(r.mergeData) = Range(DerivedKeys(r.ep)) \cup Keys(r.body.data)
                   /\ \A k \in Keys(r.mergeData) :
                         Get(r.mergeData, k) = ExpectedMergeValue(r, k)
                   /\ Head(r.call.subject) =
                         Head(StringOf(ExpectedMergeValue(r, "company_name")))

C9_Witness ==
    \E i \in DOMAIN reqs :
        /\ reqs[i].pc = "awaiting"
        /\ reqs[i].ep = "/send-invoice"
        /\ reqs[i].body.companySettings.companyName = "Blue Pools"
        /\ reqs[i].body.paymentLink = "https://pay.example/1"
        /\ Get(reqs[i].body.data, "company_name") = Str(<<Txt("Caller Co")>>)
        /\ Get(reqs[i].mergeData, "owner_name") = Str(<<Txt("Jack")>>)
        /\ Get(reqs[i].mergeData, "payment_link") = Str(<<Txt("https://pay.example/caller")>>)
        /\ reqs[i].call.subject = <<Txt("Caller Co"), Txt(": "), Txt("Sam")>>

\* A templated request without its template, or without the template's
\* subject or body; a /send-email request without subject or body.
MissingField(r) ==
    \/ /\ r.ep \in TemplatedEndpoints
       /\ \/ ~r.body.template.present
          \/ r.body.template.subject = Undefined
          \/ r.body.template.body = Undefined
    \/ r.ep = "/send-email" /\ (r.body.subject = "" \/ r.body.body = <<>>)

\* C10 (as claimed): a request that omits a required field other than the
\* recipient is answered with a 400-class status and a descriptive error,
\* never with a 500-class status, and the provider is not invoked.
C10_MissingFieldIsClientError ==
    \A i \in DOMAIN reqs :
        (reqs[i].pc # "idle" /\ MissingField(reqs[i]))
            => /\ reqs[i].pc = "responded"
               /\ ClientError(reqs[i])
               /\ reqs[i].response.error # ""
               /\ reqs[i].calls = 0

PayNowClose == Txt("\" class=\"btn\">Pay Now</a>")

\* C13: in /send-invoice the 'Pay Now' link block is appended to the rendered
\* body, after template processing and before the HTML wrapping, iff the
\* request supplies a truthy paymentLink, and its href is that paymentLink;
\* /send-weekly-update and /send-quote never append it.
C13_PayNowBlock ==
    \A i \in DOMAIN reqs :
        (reqs[i].pc = "awaiting" /\ reqs[i].ep \in TemplatedEndpoints)
            => LET r == reqs[i]
                   rendered == processTemplate(r.body.template.body.s, r.mergeData)
                   content == r.call.html.content
               IN  IF r.ep = "/send-invoice" /\ r.body.paymentLink # ""
                   THEN content = rendered \o <<Txt("<br><br><a href=\""),
                                                Txt(r.body.paymentLink), PayNowClose>>
                   ELSE /\ content = rendered
                        /\ \A n \in 1..Len(content) : content[n] # PayNowClose

C13_Witness ==
    \E i \in DOMAIN reqs :
        /\ reqs[i].pc = "awaiting"
        /\ reqs[i].ep = "/send-invoice"
        /\ reqs[i].body.paymentLink = "https://pay.example/1"
        /\ reqs[i].body.data = <<>>
        /\ reqs[i].body.companySettings.ownerName = "Jack"
        /\ reqs[i].call.html.content =
              <<Txt("Jack"), Txt("<br>"), Txt("https://pay.example/1"),
                Txt("<br><br><a href=\""), Txt("https://pay.example/1"), PayNowClose>>

----------------------------------------------------------------------------
(* The renderer run step by step on bounded templates and data *)

TemplateTokens ==
    {Txt("a"), Tag("name"), If("urgent"), EndIf, Stars, NL}

RECURSIVE SeqsUpTo(_, _)
SeqsUpTo(S, n) ==
    IF n = 0 THEN {<<>>}
    ELSE LET shorter == SeqsUpTo(S, n - 1)
         IN  shorter \cup {Append(s, x) : s \in shorter, x \in S}

\* The two examples of the specification's section 8.
ExampleTemplate ==
    <<Txt("Hello "), Tag("name"), Txt(", "), If("urgent"), Txt("call now!"), EndIf>>

Templates == SeqsUpTo(TemplateTokens, MaxTemplateLen) \cup {ExampleTemplate}

DataKeys == {"name", "urgent"}

DataValues ==
    {Str(<<>>), Str(<<Txt("Sam")>>), Bool(TRUE), Bool(FALSE), Str(<<Stars>>),
     Str(<<Txt("$&")>>)}

DataMaps ==
    {d \in SeqsUpTo([k : DataKeys, v : DataValues], Cardinality(DataKeys)) :
        \A i, j \in 1..Len(d) : i # j => d[i].k # d[j].k}

RenderInit ==
    /\ template \in Templates
    /\ tdata \in DataMaps
    /\ result = template
    /\ stage = 0
    /\ variant = "resend"
    /\ stripeKeySet = TRUE
    /\ emailConfigured = TRUE
    /\ reqs = <<NoRequest>>

MergeStep ==
    /\ stage = 0
    /\ result' = MergeTags(result, tdata)
    /\ stage' = 1
    /\ UNCHANGED <<template, tdata, serverVars>>

ConditionalStep ==
    /\ stage = 1
    /\ result' = Conditionals(result, tdata)
    /\ stage' = 2
    /\ UNCHANGED <<template, tdata, serverVars>>

BoldStep ==
    /\ stage = 2
    /\ result' = Bold(result)
    /\ stage' = 3
    /\ UNCHANGED <<template, tdata, serverVars>>

NewlineStep ==
    /\ stage = 3
    /\ result' = Newlines(result)
    /\ stage' = 4
    /\ UNCHANGED <<template, tdata, serverVars>>

RenderNext == MergeStep \/ ConditionalStep \/ BoldStep \/ NewlineStep

SpecTemplate == RenderInit /\ [][RenderNext]_vars

\* Data values that themselves hold template syntax: a conditional block,
\* a pair of ** markers, a newline.
MarkupValues ==
    {Str(<<Txt("Sam")>>), Bool(TRUE), Bool(FALSE),
     Str(<<If("urgent"), Txt("x"), EndIf>>),
     Str(<<Stars, Txt("b"), Stars>>),
     Str(<<Txt("l1"), NL, Txt("l2")>>),
     Str(<<Stars>>)}

MarkupMaps ==
    {d \in SeqsUpTo([k : DataKeys, v : MarkupValues], Cardinality(DataKeys)) :
        \A i, j \in 1..Len(d) : i # j => d[i].k # d[j].k}

MarkupInit ==
    /\ template \in SeqsUpTo(TemplateTokens, MaxTemplateLen - 1)
    /\ tdata \in MarkupMaps
    /\ result = template
    /\ stage = 0
    /\ variant = "resend"
    /\ stripeKeySet = TRUE
    /\ emailConfigured = TRUE
    /\ reqs = <<NoRequest>>

SpecMarkup == MarkupInit /\ [][RenderNext]_vars

----------------------------------------------------------------------------
(* Properties of processTemplate *)

Rendered == stage = 4

\* The subsequence of s at the indices satisfying Keep.
RECURSIVE Select(_, _, _)
Select(s, Keep(_), i) ==
    IF i > Len(s) THEN <<>>
    ELSE (IF Keep(i) THEN <<s[i]>> ELSE <<>>) \o Select(s, Keep, i + 1)

\* What the claim C6 expects of the merge step: every {{key}} gives way to
\* data[key], or to nothing when key is absent or its value falsy.
EveryTagReplaced(s, d) ==
    Concat([i \in 1..Len(s) |->
              IF s[i].t = "tag" THEN Replacement(Get(d, s[i].v)) ELSE <<s[i]>>])

\* C6 (as claimed): processTemplate replaces every merge tag {{key}} by
\* data[key], by the empty string when the key is absent or its value falsy,
\* and no merge tag remains in the output.
C6_EveryTagReplaced ==
    /\ stage = 1 => result = EveryTagReplaced(template, tdata)
    /\ Rendered => \A i \in 1..Len(result) : result[i].t # "tag"

IsMarker(tok) == tok.t \in {"if", "endif"}

\* The conditional markers of s, in order.
Markers(s) == Select(s, LAMBDA i : IsMarker(s[i]), 1)

\* Every block of s is flat: the markers alternate {{#if k}}, {{/if}}.
Flat(s) ==
    LET m == Markers(s)
    IN  /\ Len(m) % 2 = 0
        /\ \A i \in 1..Len(m) : (m[i].t = "if") <=> (i % 2 = 1)

\* The index of the last marker of s before index i, 0 when there is none.
LastMarkerBefore(s, i) ==
    IF \E j \in 1..(i - 1) : IsMarker(s[j])
    THEN CHOOSE j \in 1..(i - 1) :
            IsMarker(s[j]) /\ \A k \in (j + 1)..(i - 1) : ~IsMarker(s[k])
    ELSE 0

\* A flat s with its markers dropped and the content of each block kept iff
\* the block's key is truthy in d.
KeepTruthyBlocks(s, d) ==
    Select(s,
           LAMBDA i :
              /\ ~IsMarker(s[i])
              /\ LET m == LastMarkerBefore(s, i)
                 IN  m = 0 \/ s[m] = EndIf \/ Truthy(Get(d, s[m].v)),
           1)

SamUrgent == <<[k |-> "name", v |-> Str(<<Txt("Sam")>>)], [k |-> "urgent", v |-> Bool(TRUE)]>>
SamCalm == <<[k |-> "name", v |-> Str(<<Txt("Sam")>>)], [k |-> "urgent", v |-> Bool(FALSE)]>>
HelloSam == <<Txt("Hello "), Txt("Sam"), Txt(", ")>>

\* C7: the conditional step, run on a template whose blocks are flat, keeps
\* the content of each block {{#if key}}content{{/if}} verbatim, without the
\* markers, iff data[key] is truthy, and removes the whole block otherwise;
\* the two examples of the specification render as it says.
C7_FlatConditionals ==
    /\ [][(stage = 1 /\ stage' = 2 /\ Flat(result))
             => result' = KeepTruthyBlocks(result, tdata)]_vars
    /\ [](Rendered /\ template = ExampleTemplate /\ tdata = SamUrgent
             => result = HelloSam \o <<Txt("call now!")>>)
    /\ [](Rendered /\ template = ExampleTemplate /\ tdata = SamCalm
             => result = HelloSam)

C7_Witness ==
    /\ Rendered
    /\ template = ExampleTemplate
    /\ tdata = SamUrgent
    /\ result = HelloSam \o <<Txt("call now!")>>

\* A template without merge tag and without conditional block.
Plain(s) ==
    /\ \A i \in 1..Len(s) : s[i].t # "tag"
    /\ ~\E i, j \in 1..Len(s) : i < j /\ s[i].t = "if" /\ s[j] = EndIf

\* The index of the last newline of s before index i, 0 when there is none.
LineStart(s, i) ==
    IF \E j \in 1..(i - 1) : s[j] = NL
    THEN CHOOSE j \in 1..(i - 1) : s[j] = NL /\ \A k \in (j + 1)..(i - 1) : s[k] # NL
    ELSE 0

\* The index of the first newline of s after index i, Len(s) + 1 when none.
LineEnd(s, i) ==
    IF \E j \in (i + 1)..Len(s) : s[j] = NL
    THEN CHOOSE j \in (i + 1)..Len(s) : s[j] = NL /\ \A k \in (i + 1)..(j - 1) : s[k] # NL
    ELSE Len(s) + 1

StarsIn(s, from, to) == Cardinality({j \in from..to : s[j] = Stars})

\* s with the ** of the span lo(i)..hi(i) around each index i paired off
\* first with second, third with fourth, ..., and every newline made <br>.
PairStars(s, lo(_), hi(_)) ==
    [i \in 1..Len(s) |->
        IF s[i] = NL THEN Txt("<br>")
        ELSE IF s[i] # Stars THEN s[i]
        ELSE IF StarsIn(s, lo(i), i - 1) % 2 = 1 THEN Txt("</strong>")
        ELSE IF StarsIn(s, i + 1, hi(i)) > 0 THEN Txt("<strong>")
        ELSE s[i]]

\* Pairs taken over the whole template, whatever lies between the two **.
BoldAnywhere(s) == PairStars(s, LAMBDA i : 1, LAMBDA i : Len(s))

\* Pairs taken within each line.
BoldWithinLines(s) ==
    PairStars(s, LAMBDA i : LineStart(s, i) + 1, LAMBDA i : LineEnd(s, i) - 1)

\* C8 (as claimed): a template without merge tag and without conditional
\* block is returned unchanged except that each **x** pair becomes
\* <strong>x</strong> and each newline <br>, whatever the data.
C8_EveryPairBold == (Rendered /\ Plain(template)) => result = BoldAnywhere(template)

\* C8 (amended): a template without merge tag and without conditional block
\* is returned unchanged except that each **x** pair whose x holds no newline
\* becomes <strong>x</strong> and each newline <br>, whatever the data.
C8_PlainTemplate == (Rendered /\ Plain(template)) => result = BoldWithinLines(template)

C8_Witness ==
    /\ Rendered
    /\ template = <<Stars, Txt("a"), Stars, NL>>
    /\ tdata = SamUrgent
    /\ result = <<Txt("<strong>"), Txt("a"), Txt("</strong>"), Txt("<br>")>>

----------------------------------------------------------------------------
(* The order of the four steps *)

NameIs(v) == \E i \in 1..Len(tdata) : tdata[i] = [k |-> "name", v |-> v]

UrgentIs(b) == \E i \in 1..Len(tdata) : tdata[i] = [k |-> "urgent", v |-> Bool(b)]

\* C14: processTemplate applies merge-tag substitution, conditional
\* resolution, bold conversion and newline conversion in this fixed order,
\* each on the previous step's output; its result is
\* newline(bold(conditionals(mergeTags(template, data), data))), so a
\* substituted value holding a conditional block, ** markers or a newline
\* is processed by the later steps.
C14_FixedOrder ==
    /\ stage = 1 => result = MergeTags(template, tdata)
    /\ stage = 2 => result = Conditionals(MergeTags(template, tdata), tdata)
    /\ stage = 3 => result = Bold(Conditionals(MergeTags(template, tdata), tdata))
    /\ Rendered =>
          /\ result = processTemplate(template, tdata)
          /\ \A n \in 1..Len(result) : result[n] # NL
          /\ template = <<Tag("name")>> =>
                /\ (NameIs(Str(<<If("urgent"), Txt("x"), EndIf>>)) /\ UrgentIs(TRUE))
                      => result = <<Txt("x")>>
                /\ (NameIs(Str(<<If("urgent"), Txt("x"), EndIf>>))
                        /\ (UrgentIs(FALSE) \/ "urgent" \notin Keys(tdata)))
                      => result = <<>>
                /\ NameIs(Str(<<Stars, Txt("b"), Stars>>))
                      => result = <<Txt("<strong>"), Txt("b"), Txt("</strong>")>>
                /\ NameIs(Str(<<Txt("l1"), NL, Txt("l2")>>))
                      => result = <<Txt("l1"), Txt("<br>"), Txt("l2")>>

C14_Witness ==
    /\ Rendered
    /\ template = <<Tag("name")>>
    /\ NameIs(Str(<<If("urgent"), Txt("x"), EndIf>>))
    /\ UrgentIs(TRUE)
    /\ result = <<Txt("x")>>

----------------------------------------------------------------------------
(* Requests and responses *)

Pending(i) == reqs[i].pc = "awaiting"

Responded(i) == reqs[i].pc = "responded"

\* What holds of request i at every moment.
OneResponse(i) ==
    /\ reqs[i].pc \in {"idle", "awaiting", "responded"}
    /\ reqs[i].calls \in {0, 1}
    /\ Responded(i) <=> reqs[i].response # NoResponse
    /\ Responded(i) => reqs[i].response.status \in {200, 400, 500}
    /\ Pending(i) => reqs[i].calls = 1 /\ reqs[i].call # NoCall
    /\ (Responded(i) /\ ClientError(reqs[i]))
          => reqs[i].calls = 0 /\ reqs[i].call = NoCall /\ reqs[i].reply = NoReply

\* A request is answered when it arrives or suspended at its provider call;
\* a suspended request is only ever answered; an answer is never replaced.
OneResponseStep(i) ==
    /\ (reqs[i].pc = "idle" /\ reqs'[i] # reqs[i])
          => reqs'[i].pc \in {"awaiting", "responded"}
    /\ (Pending(i) /\ reqs'[i] # reqs[i])
          => /\ reqs'[i].pc = "responded"
             /\ reqs'[i].calls = reqs[i].calls
             /\ reqs'[i].call = reqs[i].call
    /\ Responded(i) => reqs'[i] \in {reqs[i], NoRequest}

\* C11: every request to any endpoint eventually receives exactly one
\* response, success or error; during one request the provider is called at
\* most once; a request answered with a validation or configuration error
\* made no provider call.
C11_OneResponse ==
    /\ \A i \in Connections : Pending(i) ~> Responded(i)
    /\ [](\A i \in Connections : OneResponse(i))
    /\ [][\A i \in Connections : OneResponseStep(i)]_vars

C11_Witness ==
    /\ emailConfigured
    /\ Responded(1)
    /\ reqs[1].ep = "/send-invoice"
    /\ reqs[1].calls = 1
    /\ reqs[1].reply.kind = "reject"
    /\ reqs[1].response.status = 500
    /\ Responded(2)
    /\ reqs[2].ep = "/send-email"
    /\ reqs[2].calls = 0
    /\ reqs[2].response = Fail(400, "to, subject, and body are required")

----------------------------------------------------------------------------
(* Requests in flight together *)

\* What the handler of ep does with body when served on its own.
ServedAlone(ep, body) ==
    CASE ep = "/" -> health(body)
      [] ep = "/create-checkout-session" -> createCheckoutSession(body)
      [] ep = "/payment-status" -> paymentStatus(body)
      [] ep \in TemplatedEndpoints -> sendTemplated(ep, body)
      [] ep = "/send-email" -> sendEmail(body)
      [] ep = "/test-email" -> testEmail(body)

\* The response that request r's own input, the configuration and r's own
\* provider reply determine.
OwnResponse(r) ==
    IF r.reply = NoReply THEN ServedAlone(r.ep, r.body).response
    ELSE IF r.reply.kind = "ok" THEN Success(SentMessage(r.ep))
    ELSE Caught(IF r.call.provider = "resend" THEN ResendFailure(r.reply) ELSE r.reply.msg)

OwnInputOnly(i) ==
    reqs[i].pc # "idle" =>
        LET r == reqs[i]
            alone == ServedAlone(r.ep, r.body)
        IN  /\ r.mergeData = alone.mergeData
            /\ r.call = alone.call
            /\ r.calls = alone.calls
            /\ Pending(i) => r = alone
            /\ Responded(i) =>
                  /\ r.response = OwnResponse(r)
                  /\ r.reply = NoReply <=> alone.pc = "responded"
                  /\ r.reply # NoReply =>
                        r.reply \in (CASE r.call.provider = "stripe" -> StripeReplies(r.call)
                                       [] r.call.provider = "resend" -> ResendReplies
                                       [] r.call.provider = "gmail" -> GmailReplies)
                  /\ \A j \in Connections :
                        (/\ Responded(j)
                         /\ reqs[j].ep = r.ep
                         /\ reqs[j].body = r.body
                         /\ reqs[j].reply = r.reply) => reqs[j].response = r.response

\* Whatever the other requests came to, request i can take its next step: an
\* idle connection is served, an awaited call resumes, an answer goes out.
NeverStopped(i) ==
    /\ reqs[i].pc = "idle" => ENABLED Health(i)
    /\ Pending(i) => ENABLED Settles(i)
    /\ Responded(i) => ENABLED Done(i)

\* A step of one request writes that request's own state only.
NoSharedWrite ==
    /\ UNCHANGED <<variant, stripeKeySet, emailConfigured>>
    /\ \A i, j \in Connections :
          (reqs'[i] # reqs[i] /\ reqs'[j] # reqs[j]) => i = j

\* C12: under any interleaving of concurrently handled requests, the response
\* to each request depends only on its own input, the read-only start-up
\* configuration and its own provider call result: handlers write no state
\* shared across requests, and a failure in one request (validation error,
\* provider error, thrown exception) neither changes the response of another
\* request nor stops the process.
C12_Isolation ==
    /\ [](\A i \in Connections : OwnInputOnly(i) /\ NeverStopped(i))
    /\ [][NoSharedWrite]_vars

C12_Witness ==
    /\ emailConfigured
    /\ Responded(1)
    /\ reqs[1].ep = "/send-weekly-update"
    /\ ~reqs[1].body.template.present
    /\ ServerError(reqs[1])
    /\ Responded(2)
    /\ reqs[2].ep = "/send-weekly-update"
    /\ reqs[2].body.to = reqs[1].body.to
    /\ reqs[2].reply.kind = "ok"
    /\ reqs[2].response = Success("Weekly update sent successfully")

====
